---- MODULE Spec2Model ----
(***************************************************************************)
(* Model of src/perplexity_utils.py: the JSON sanitizer                    *)
(* (_extract_json_from_text), the incompleteness heuristic                  *)
(* (_is_incomplete_response) and the structured request with its bounded    *)
(* retry (perplexity_parse_pydantic).                                       *)
(*                                                                         *)
(* A text is a sequence of lexemes.  Each lexeme stands for the substring   *)
(* spelled by its value; the regular expressions and json.loads of the      *)
(* source are computed on the lexeme sequence exactly as they act on the    *)
(* concatenated spelling (no two lexemes merge into a new token).           *)
(* <key>: is a quoted key with its colon, <string> a quoted string,         *)
(* <fence> three backticks.                                                 *)
(***************************************************************************)
EXTENDS Integers, Sequences, FiniteSets, TLC

\* ------------------------------------------------------------- lexemes
LB == "{"
RB == "}"
\* an object key with its colon
K == "<key>:"
\* a JSON string value without any keyword
V == "<string>"
\* a JSON string value that contains the word Fetching
SA == "<string Fetching>"
\* prose that is neither JSON nor a keyword
X == "noise"
\* one whitespace character
W == " "
\* a code fence and the json tag that may follow it
F == "<fence>"
J == "json"
\* the reasoning markers
T == "<think>"
U == "</think>"
\* narration: A and G are scrubbed (patterns 3 and 4) and are indicators,
\* M is an indicator only ("let me search") and no scrub pattern matches it
A == "Fetching"
G == "Searching for"
M == "Let me search"

\* the absent text (Python None where a str is expected): no text holds it
None == <<"None">>
\* the absent role or model (None where a name is expected)
NoName == "None"

\* ------------------------------------------------------------- helpers
\* all sequences over S of length at most n
SeqsUpTo(S, n) == UNION {[1..m -> S] : m \in 0..n}

\* index of the first element of s that lies in S, 0 when there is none
FirstIn(s, S) ==
    IF \E i \in 1..Len(s) : s[i] \in S
    THEN CHOOSE i \in 1..Len(s) : s[i] \in S /\ \A j \in 1..(i-1) : s[j] \notin S
    ELSE 0

\* index of the last element of s that lies in S, 0 when there is none
LastIn(s, S) ==
    IF \E i \in 1..Len(s) : s[i] \in S
    THEN CHOOSE i \in 1..Len(s) : s[i] \in S /\ \A j \in (i+1)..Len(s) : s[j] \notin S
    ELSE 0

\* s[a..] (Python s[a-1:])
From(s, a) == SubSeq(s, a, Len(s))

\* number of leading whitespace lexemes
RECURSIVE LeadingWs(_)
LeadingWs(s) == IF s # <<>> /\ Head(s) = W THEN 1 + LeadingWs(Tail(s)) ELSE 0

RECURSIVE TrailingWs(_)
TrailingWs(s) ==
    IF s # <<>> /\ s[Len(s)] = W THEN 1 + TrailingWs(SubSeq(s, 1, Len(s) - 1)) ELSE 0

\* str.strip()
Strip(s) ==
    IF LeadingWs(s) = Len(s) THEN <<>>
    ELSE SubSeq(s, LeadingWs(s) + 1, Len(s) - TrailingWs(s))

\* ------------------------------------------------------------- json.loads
\* json.loads(s) succeeds: optional whitespace around one value; over the
\* lexemes (which have no comma, number or bracket) a value is a string or an
\* object with no member or with one member whose value is a value
RECURSIVE JsonValue(_)
JsonValue(s) ==
    \/ s = <<V>>
    \/ s = <<SA>>
    \/ /\ Len(s) >= 2
       /\ s[1] = LB
       /\ s[Len(s)] = RB
       /\ LET inner == Strip(SubSeq(s, 2, Len(s) - 1))
          IN  \/ inner = <<>>
              \/ /\ Len(inner) >= 2
                 /\ inner[1] = K
                 /\ JsonValue(Strip(Tail(inner)))

JsonLoads(s) == JsonValue(Strip(s))

\* ------------------------------------------------------------- sanitizer
\* re.sub(r"<think>[\s\S]*?</think>", "", text): every paired block, scanning
\* left to right and resuming after each removed block
RECURSIVE StripThinkPaired(_)
StripThinkPaired(s) ==
    LET i == FirstIn(s, {T})
    IN  IF i = 0 THEN s
        ELSE LET rest == From(s, i + 1)
                 j == FirstIn(rest, {U})
             IN  IF j = 0 THEN s
                 ELSE SubSeq(s, 1, i - 1) \o StripThinkPaired(From(rest, j + 1))

\* re.sub(r"<think>[\s\S]*$", "", text): an unclosed block runs to the end
StripThinkOpen(s) ==
    LET i == FirstIn(s, {T})
    IN  IF i = 0 THEN s ELSE SubSeq(s, 1, i - 1)

\* the lexemes inside which the keyword of action pattern p matches
\* (1: "let me fetch", 2: "I'll/I will fetch|search|look up", 3: "Fetching",
\*  4: "Searching"; case-insensitive)
ActionKeyword(p) ==
    CASE p = 1 -> {}
      [] p = 2 -> {}
      [] p = 3 -> {A, SA}
      [] p = 4 -> {G}

NumActionPatterns == 4

\* re.sub(r"^.*?KEYWORD[^{]*", "", text, DOTALL): the anchored match runs from
\* the start to the first keyword and on to the next "{" or the end
ScrubOne(s, p) ==
    LET i == FirstIn(s, ActionKeyword(p))
    IN  IF i = 0 THEN s
        ELSE LET rest == From(s, i + 1)
                 b == FirstIn(rest, {LB})
             IN  IF b = 0 THEN <<>> ELSE From(rest, b)

RECURSIVE ScrubFrom(_, _)
ScrubFrom(s, p) ==
    IF p > NumActionPatterns THEN s ELSE ScrubFrom(ScrubOne(s, p), p + 1)

\* the loop over action_patterns, in order
StripAction(s) == ScrubFrom(s, 1)

\* lines 58-77: the text the extraction strategies work on
Scrubbed(text) == Strip(StripAction(StripThinkOpen(StripThinkPaired(text))))

\* re.search of a fence pattern: the leftmost opening fence (followed by the
\* json tag when tagged) that has a closing fence after it; group(1) starts
\* after the whitespace behind the opener and is the shortest span followed
\* by optional whitespace and a fence.  <<FALSE, <<>>>> when nothing matches.
FenceOpens(s, i, tagged) ==
    /\ s[i] = F
    /\ tagged => (i + 1 <= Len(s) /\ s[i + 1] = J)
    /\ \E c \in (i + (IF tagged THEN 2 ELSE 1))..Len(s) : s[c] = F

FenceGroup(s, tagged) ==
    IF \E i \in 1..Len(s) : FenceOpens(s, i, tagged)
    THEN LET i == CHOOSE k \in 1..Len(s) :
                    /\ FenceOpens(s, k, tagged)
                    /\ \A j \in 1..(k-1) : ~FenceOpens(s, j, tagged)
             body == From(s, i + (IF tagged THEN 2 ELSE 1))
             st == LeadingWs(body) + 1
             Closes(e) == LET r == From(body, e) IN
                            LeadingWs(r) < Len(r) /\ r[LeadingWs(r) + 1] = F
             e == CHOOSE k \in st..Len(body) :
                    Closes(k) /\ \A j \in st..(k-1) : ~Closes(j)
         IN  <<TRUE, SubSeq(body, st, e - 1)>>
    ELSE <<FALSE, <<>>>>

\* re.search(r"\{[\s\S]*\}", text): first "{" to last "}"
BraceSpan(s) ==
    LET a == FirstIn(s, {LB})
        b == LastIn(s, {RB})
    IN  IF a # 0 /\ b > a THEN <<TRUE, SubSeq(s, a, b)>> ELSE <<FALSE, <<>>>>

\* the brace counter after each of the first n lexemes of s
RECURSIVE BraceCount(_, _)
BraceCount(s, n) ==
    IF n = 0 THEN 0
    ELSE BraceCount(s, n - 1)
         + (IF s[n] = LB THEN 1 ELSE IF s[n] = RB THEN -1 ELSE 0)

\* as BalancedSpan, but the scan goes on to the last "}" that brings the
\* counter back to zero
BalancedSpan_last(s) ==
    LET Zero(i) == s[i] = RB /\ BraceCount(s, i) = 0
    IN  IF \E i \in 1..Len(s) : Zero(i)
        THEN <<TRUE, SubSeq(s, 1, CHOOSE i \in 1..Len(s) :
                                     Zero(i) /\ \A j \in (i+1)..Len(s) : ~Zero(j))>>
        ELSE <<FALSE, <<>>>>

\* lines 110-119: the span from the first "{" to the first "}" at which the
\* counter is back at zero
BalancedSpan(s) ==
    LET Zero(i) == s[i] = RB /\ BraceCount(s, i) = 0
    IN  IF \E i \in 1..Len(s) : Zero(i)
        THEN <<TRUE, SubSeq(s, 1, CHOOSE i \in 1..Len(s) :
                                     Zero(i) /\ \A j \in 1..(i-1) : ~Zero(j))>>
        ELSE <<FALSE, <<>>>>

\* as ExtractWith, but the balanced span is returned without json.loads
ExtractWith_unchecked(raw) ==
    LET text == Scrubbed(raw)
        tagged == FenceGroup(text, TRUE)
        generic == FenceGroup(text, FALSE)
        brace == BraceSpan(text)
        balanced == BalancedSpan(brace[2])
    IN  IF text = <<>> THEN [via |-> "empty", val |-> None]
        ELSE IF tagged[1] /\ JsonLoads(Strip(tagged[2]))
        THEN [via |-> "fenced_json", val |-> Strip(tagged[2])]
        ELSE IF generic[1] /\ JsonLoads(Strip(generic[2]))
        THEN [via |-> "fenced", val |-> Strip(generic[2])]
        ELSE IF brace[1] /\ JsonLoads(brace[2])
        THEN [via |-> "brace", val |-> brace[2]]
        ELSE IF brace[1] /\ balanced[1]
        THEN [via |-> "balanced", val |-> balanced[2]]
        ELSE IF JsonLoads(Strip(text))
        THEN [via |-> "whole", val |-> Strip(text)]
        ELSE [via |-> "none", val |-> None]

\* as ExtractWith, but the fenced strategies return the whole match
\* (group 0, fences included) after validating group 1
ExtractWith_group0(raw) ==
    LET text == Scrubbed(raw)
        tagged == FenceGroup(text, TRUE)
        generic == FenceGroup(text, FALSE)
        brace == BraceSpan(text)
        balanced == BalancedSpan(brace[2])
    IN  IF text = <<>> THEN [via |-> "empty", val |-> None]
        ELSE IF tagged[1] /\ JsonLoads(Strip(tagged[2]))
        THEN [via |-> "fenced_json", val |-> <<F, J>> \o tagged[2] \o <<F>>]
        ELSE IF generic[1] /\ JsonLoads(Strip(generic[2]))
        THEN [via |-> "fenced", val |-> <<F>> \o generic[2] \o <<F>>]
        ELSE IF brace[1] /\ JsonLoads(brace[2])
        THEN [via |-> "brace", val |-> brace[2]]
        ELSE IF brace[1] /\ balanced[1] /\ JsonLoads(balanced[2])
        THEN [via |-> "balanced", val |-> balanced[2]]
        ELSE IF JsonLoads(Strip(text))
        THEN [via |-> "whole", val |-> Strip(text)]
        ELSE [via |-> "none", val |-> None]

\* lines 77-133: the strategies in order; via names the one that returned
ExtractWith(raw) ==
    LET text == Scrubbed(raw)
        tagged == FenceGroup(text, TRUE)
        generic == FenceGroup(text, FALSE)
        brace == BraceSpan(text)
        balanced == BalancedSpan(brace[2])
    IN  IF text = <<>> THEN [via |-> "empty", val |-> None]
        ELSE IF tagged[1] /\ JsonLoads(Strip(tagged[2]))
        THEN [via |-> "fenced_json", val |-> Strip(tagged[2])]
        ELSE IF generic[1] /\ JsonLoads(Strip(generic[2]))
        THEN [via |-> "fenced", val |-> Strip(generic[2])]
        ELSE IF brace[1] /\ JsonLoads(brace[2])
        THEN [via |-> "brace", val |-> brace[2]]
        ELSE IF brace[1] /\ balanced[1] /\ JsonLoads(balanced[2])
        THEN [via |-> "balanced", val |-> balanced[2]]
        ELSE IF JsonLoads(Strip(text))
        THEN [via |-> "whole", val |-> Strip(text)]
        ELSE [via |-> "none", val |-> None]

extract_json_from_text(raw) == ExtractWith(raw).val

\* ------------------------------------------------------------- classification
\* as IncompleteIndicators, without "let me search"
IncompleteIndicators_short == {A, SA, G}

\* the lexemes that contain one of incomplete_indicators (lower-cased)
IncompleteIndicators == {A, SA, G, M}

is_incomplete_response(text) ==
    /\ \E i \in 1..Len(text) : text[i] \in IncompleteIndicators
    /\ \A i \in 1..Len(text) : text[i] # LB

\* ------------------------------------------------------------- messages
NoParts == <<>>
StrContent(s) == [kind |-> "str", str |-> s, parts |-> NoParts]
NoneContent == [kind |-> "none", str |-> <<>>, parts |-> NoParts]
AbsentContent == [kind |-> "absent", str |-> <<>>, parts |-> NoParts]
PartsContent(ps) == [kind |-> "parts", str |-> <<>>, parts |-> ps]
TextPart(s) == [type |-> "text", text |-> s]
StrPart(s) == [type |-> "str", text |-> s]
ImagePart == [type |-> "image_url", text |-> <<>>]

\* "\n".join(text_parts) over the text and str parts
RECURSIVE JoinParts(_)
JoinParts(ps) ==
    IF ps = <<>> THEN <<>>
    ELSE LET rest == JoinParts(Tail(ps))
             keep == Head(ps).type \in {"text", "str"}
             more == \E i \in 2..Len(ps) : ps[i].type \in {"text", "str"}
         IN  IF ~keep THEN rest
             ELSE IF more THEN Head(ps).text \o <<"<newline>">> \o rest
             ELSE Head(ps).text

NormalizeOne(msg) ==
    [role |-> IF msg.role = NoName THEN "user" ELSE msg.role,
     content |-> CASE msg.content.kind = "parts" -> JoinParts(msg.content.parts)
                   [] msg.content.kind = "str" -> msg.content.str
                   [] OTHER -> <<>>]

normalize_messages(msgs) == [i \in 1..Len(msgs) |-> NormalizeOne(msgs[i])]

schema_instruction == [role |-> "system", content |-> <<"schema instruction">>]

\* lines 223-273: the JSON body of the POST for the given call arguments
RequestBody(a) ==
    [model |-> IF a.model = NoName THEN "sonar" ELSE a.model,
     messages |-> <<schema_instruction>> \o normalize_messages(a.messages),
     temperature |-> a.temperature,
     max_tokens |-> a.max_tokens]

\* ------------------------------------------------------------- bounds
\* longest upstream reply, in lexemes
MaxReplyLen == 4
\* most caller messages in one invocation
MaxMsgs == 2
\* longest text given to the sanitizer on its own
MaxLen == 5
\* longest text of the narration and reasoning lexemes
MaxLeakLen == 5

ReplyLexemes == {LB, RB, V, F, A, M}
StructLexemes == {LB, RB, K, V, X, W, F, J, A}
LeakLexemes == {A, G, SA, LB, RB, K, F, T, U}

\* the example texts of the documentation, lexeme by lexeme
TwoObjects == <<X, W, LB, W, K, W, V, W, RB, W, X, W, LB, W, K, W, V, W, RB, W, X>>
FencedThenProse == <<F, J, W, LB, K, W, V, RB, W, F, W, X>>
ExampleTexts == {TwoObjects, FencedThenProse}

CallerMessages ==
    {[role |-> "user", content |-> StrContent(<<"price of X?">>)],
     [role |-> NoName,
      content |-> PartsContent(<<TextPart(<<"p1">>), ImagePart, StrPart(<<"p2">>)>>)]}

\* a message list with the contents that normalize to the empty string
EdgeMessages ==
    <<[role |-> "assistant", content |-> NoneContent],
      [role |-> "system", content |-> AbsentContent],
      [role |-> "user", content |-> PartsContent(<<ImagePart>>)]>>

CallArgs ==
    {[messages |-> ms, model |-> md, temperature |-> "0.1", max_tokens |-> 16384] :
        ms \in SeqsUpTo(CallerMessages, MaxMsgs) \cup {EdgeMessages},
        md \in {NoName, "sonar-pro"}}

MAX_RETRIES == 2

\* ------------------------------------------------------------- state
VARIABLES
    args,          \* the arguments of the invocation (messages, model, ...)
    pc,            \* the stage of the invocation
    retry_count,   \* _retry_count of the innermost frame
    calls,         \* POSTs issued so far
    in_flight,     \* POSTs awaiting their response
    sent,          \* the JSON bodies posted, in order
    reply,         \* innermost frame: the kind of its upstream reply
    text_content,  \* innermost frame: the content of its 2xx reply
    incomplete,    \* innermost frame: its classification
    json_str,      \* the sanitizer's result for text_content
    text,          \* sanitizer alone: the input
    xpc,           \* sanitizer alone: input, extracted, again
    out,           \* sanitizer alone: the result with its strategy
    out2           \* sanitizer alone: the result of running it on out.val

reqvars == <<args, pc, retry_count, calls, in_flight, sent, reply, text_content,
             incomplete, json_str>>
xvars == <<text, xpc, out, out2>>
vars == <<args, pc, retry_count, calls, in_flight, sent, reply, text_content,
          incomplete, json_str, text, xpc, out, out2>>

NoOut == [via |-> "none", val |-> None]

FailedStates == {"FailedUpstream", "FailedEmpty", "FailedExtraction",
                 "FailedMalformed", "FailedSchemaValidation"}

ReqIdle ==
    /\ pc = "Start"
    /\ retry_count = 0
    /\ calls = 0
    /\ in_flight = 0
    /\ sent = <<>>
    /\ reply = "none"
    /\ text_content = <<>>
    /\ incomplete = FALSE
    /\ json_str = None

XIdle == xpc = "off" /\ text = <<>> /\ out = NoOut /\ out2 = None

\* an invocation with _retry_count at its default
Init == args \in CallArgs /\ ReqIdle /\ XIdle

\* ------------------------------------------------------------- the request
\* lines 222-273 of the outermost frame: build the body and POST it
Call ==
    /\ pc = "Start"
    /\ pc' = "Sending"
    /\ sent' = Append(sent, RequestBody(args))
    /\ calls' = calls + 1
    /\ in_flight' = in_flight + 1
    /\ UNCHANGED <<args, retry_count, reply, text_content, incomplete, json_str>>
    /\ UNCHANGED xvars

\* line 274: the transport fails or raise_for_status raises
ReceiveFailure ==
    /\ pc = "Sending"
    /\ pc' = "FailedUpstream"
    /\ in_flight' = in_flight - 1
    /\ reply' = "error"
    /\ UNCHANGED <<args, retry_count, calls, sent, text_content, incomplete, json_str>>
    /\ UNCHANGED xvars

\* as ReceiveEmpty, but an empty reply is retried while budget is left
ReceiveEmpty_retry ==
    /\ pc = "Sending"
    /\ \E kind \in {"no_choices", "empty_content"} : reply' = kind
    /\ pc' = IF retry_count < MAX_RETRIES THEN "Delay" ELSE "FailedEmpty"
    /\ in_flight' = in_flight - 1
    /\ UNCHANGED <<args, retry_count, calls, sent, text_content, incomplete, json_str>>
    /\ UNCHANGED xvars

\* lines 278-285: a 2xx reply without choices or with empty content
ReceiveEmpty ==
    /\ pc = "Sending"
    /\ \E kind \in {"no_choices", "empty_content"} : reply' = kind
    /\ pc' = "FailedEmpty"
    /\ in_flight' = in_flight - 1
    /\ UNCHANGED <<args, retry_count, calls, sent, text_content, incomplete, json_str>>
    /\ UNCHANGED xvars

\* lines 275-285: a 2xx reply with content
Receive ==
    /\ pc = "Sending"
    /\ \E t \in SeqsUpTo(ReplyLexemes, MaxReplyLen) \ {<<>>} : text_content' = t
    /\ pc' = "Received"
    /\ in_flight' = in_flight - 1
    /\ reply' = "text"
    /\ UNCHANGED <<args, retry_count, calls, sent, incomplete, json_str>>
    /\ UNCHANGED xvars

\* as Classify, with <= for < in the budget test
Classify_le ==
    /\ pc = "Received"
    /\ incomplete' = is_incomplete_response(text_content)
    /\ pc' = IF is_incomplete_response(text_content) /\ retry_count <= MAX_RETRIES
             THEN "Delay" ELSE "Complete"
    /\ UNCHANGED <<args, retry_count, calls, in_flight, sent, reply, text_content,
                   json_str>>
    /\ UNCHANGED xvars

\* as Classify, but an incomplete reply with no budget left fails at once
Classify_exhausted ==
    /\ pc = "Received"
    /\ incomplete' = is_incomplete_response(text_content)
    /\ pc' = IF ~is_incomplete_response(text_content) THEN "Complete"
             ELSE IF retry_count < MAX_RETRIES THEN "Delay"
             ELSE "FailedIncomplete"
    /\ UNCHANGED <<args, retry_count, calls, in_flight, sent, reply, text_content,
                   json_str>>
    /\ UNCHANGED xvars

\* line 288: retry when incomplete and budget is left, else go on
Classify ==
    /\ pc = "Received"
    /\ incomplete' = is_incomplete_response(text_content)
    /\ pc' = IF is_incomplete_response(text_content) /\ retry_count < MAX_RETRIES
             THEN "Delay" ELSE "Complete"
    /\ UNCHANGED <<args, retry_count, calls, in_flight, sent, reply, text_content,
                   json_str>>
    /\ UNCHANGED xvars

\* as Retry, but the recursive call is given messages_with_schema
Retry_accumulate ==
    /\ pc = "Delay"
    /\ pc' = "Sending"
    /\ retry_count' = retry_count + 1
    /\ sent' = Append(sent, [RequestBody(args) EXCEPT
                    !.messages = <<schema_instruction>> \o sent[Len(sent)].messages])
    /\ calls' = calls + 1
    /\ in_flight' = in_flight + 1
    /\ reply' = "none"
    /\ text_content' = <<>>
    /\ incomplete' = FALSE
    /\ UNCHANGED <<args, json_str>>
    /\ UNCHANGED xvars

\* lines 291-300 and 222-273 of the next frame: the sleep is over, the
\* recursive call builds its body from the same arguments and POSTs it; the
\* new frame has no reply, no text_content and no classification yet
Retry ==
    /\ pc = "Delay"
    /\ pc' = "Sending"
    /\ retry_count' = retry_count + 1
    /\ sent' = Append(sent, RequestBody(args))
    /\ calls' = calls + 1
    /\ in_flight' = in_flight + 1
    /\ reply' = "none"
    /\ text_content' = <<>>
    /\ incomplete' = FALSE
    /\ UNCHANGED <<args, json_str>>
    /\ UNCHANGED xvars

\* as Extract, but a failed extraction is retried while budget is left
Extract_retry ==
    /\ pc = "Complete"
    /\ json_str' = extract_json_from_text(text_content)
    /\ pc' = IF extract_json_from_text(text_content) # None THEN "Extracted"
             ELSE IF retry_count < MAX_RETRIES THEN "Delay"
             ELSE "FailedExtraction"
    /\ UNCHANGED <<args, retry_count, calls, in_flight, sent, reply, text_content,
                   incomplete>>
    /\ UNCHANGED xvars

\* lines 303-309
Extract ==
    /\ pc = "Complete"
    /\ json_str' = extract_json_from_text(text_content)
    /\ pc' = IF extract_json_from_text(text_content) = None
             THEN "FailedExtraction" ELSE "Extracted"
    /\ UNCHANGED <<args, retry_count, calls, in_flight, sent, reply, text_content,
                   incomplete>>
    /\ UNCHANGED xvars

\* lines 311-314
Parse ==
    /\ pc = "Extracted"
    /\ pc' = IF JsonLoads(json_str) THEN "Parsed" ELSE "FailedMalformed"
    /\ UNCHANGED <<args, retry_count, calls, in_flight, sent, reply, text_content,
                   incomplete, json_str>>
    /\ UNCHANGED xvars

\* lines 317-321: the target type accepts the value or rejects it
Validate ==
    /\ pc = "Parsed"
    /\ \E ok \in BOOLEAN : pc' = IF ok THEN "Done" ELSE "FailedSchemaValidation"
    /\ UNCHANGED <<args, retry_count, calls, in_flight, sent, reply, text_content,
                   incomplete, json_str>>
    /\ UNCHANGED xvars

Next ==
    \/ Call
    \/ ReceiveFailure
    \/ ReceiveEmpty
    \/ Receive
    \/ Classify
    \/ Retry
    \/ Extract
    \/ Parse
    \/ Validate

Spec == Init /\ [][Next]_vars

\* ------------------------------------------------------------- the sanitizer alone
ReqOff == ReqIdle /\ args \in {a \in CallArgs : a.messages = <<>> /\ a.model = NoName}

InitExtract ==
    /\ ReqOff
    /\ text \in SeqsUpTo(StructLexemes, MaxLen) \cup ExampleTexts
    /\ xpc = "input"
    /\ out = NoOut
    /\ out2 = None

InitLeak ==
    /\ ReqOff
    /\ text \in SeqsUpTo(LeakLexemes, MaxLeakLen)
    /\ xpc = "input"
    /\ out = NoOut
    /\ out2 = None

\* _extract_json_from_text(text)
RunExtract ==
    /\ xpc = "input"
    /\ out' = ExtractWith(text)
    /\ xpc' = "extracted"
    /\ UNCHANGED <<text, out2>>
    /\ UNCHANGED reqvars

\* _extract_json_from_text on the value it returned
RunAgain ==
    /\ xpc = "extracted"
    /\ out.val # None
    /\ out2' = extract_json_from_text(out.val)
    /\ xpc' = "again"
    /\ UNCHANGED <<text, out>>
    /\ UNCHANGED reqvars

NextExtract == RunExtract \/ RunAgain

SpecExtract == InitExtract /\ [][NextExtract]_vars

SpecLeak == InitLeak /\ [][NextExtract]_vars

\* ------------------------------------------------------------- claims
Terminal == FailedStates \cup {"Done"}

\* s parses and the value is a JSON object
JsonIsObject(s) == JsonLoads(s) /\ Head(Strip(s)) = LB

\* C1: an invocation issues at most 3 POSTs, never has more than one in
\* flight, and issues a POST after the first only from the delay that follows
\* a received response.
C1_Step ==
    calls' # calls =>
        /\ calls' = calls + 1
        /\ in_flight = 0
        /\ calls > 0 => (pc = "Delay" /\ reply = "text")

\* C1: the bound on POSTs and on POSTs in flight, with C1_Step on every step
C1_BoundedSequentialCalls ==
    /\ [](calls <= 3 /\ in_flight \in {0, 1})
    /\ [][C1_Step]_vars

C1_Witness == calls = 3 /\ in_flight = 1 /\ pc = "Sending"

\* C2 as stated: a reply that is pure narration on every attempt costs
\* exactly one retry (two POSTs) before the invocation gives up.
C2_ExactlyOneRetry ==
    (pc \in Terminal /\ incomplete) => calls = 2

\* C2 amended: pure narration is classified incomplete, and when it stays so
\* on every attempt the invocation gives up after exactly two retries (three
\* POSTs); "Let me search" alone then ends in the extraction failure.
C2_TwoRetriesThenGiveUp ==
    /\ (text_content = <<M>> /\ pc \notin {"Sending", "Received"}) => incomplete
    /\ (pc \in Terminal /\ incomplete) => (calls = 3 /\ retry_count = 2)
    /\ (pc \in Terminal /\ text_content = <<M>>) => pc = "FailedExtraction"

C2_Witness ==
    pc = "FailedExtraction" /\ text_content = <<M>> /\ incomplete /\ calls = 3

\* C3 as stated: a reply still incomplete on the last permitted attempt is
\* not handed to extraction and does not end in an extraction, malformed-JSON
\* or schema failure.
C3_ExhaustedIsDistinctFailure ==
    (incomplete /\ retry_count = MAX_RETRIES) =>
        pc \notin {"Complete", "Extracted", "Parsed", "Done", "FailedExtraction",
                   "FailedMalformed", "FailedSchemaValidation"}

\* C3 amended: a reply still incomplete on the last permitted attempt causes
\* no further POST and is handed to extraction like a complete one; the
\* invocation fails with the extraction failure exactly when the sanitizer
\* returns nothing and otherwise goes on to parsing and validation.
C3_ExhaustedGoesToExtraction ==
    (incomplete /\ retry_count = MAX_RETRIES) =>
        /\ calls = 3
        /\ pc \in {"Complete", "Extracted", "Parsed", "Done", "FailedExtraction",
                   "FailedSchemaValidation"}
        /\ pc # "Complete" =>
              (pc = "FailedExtraction" <=> extract_json_from_text(text_content) = None)

C3_Witness ==
    /\ incomplete
    /\ retry_count = MAX_RETRIES
    /\ pc = "Parsed"
    /\ text_content = <<M, F, V, F>>

\* C4: a transport failure ends in FailedUpstream and an empty 2xx reply in
\* FailedEmpty whatever budget is left; a POST after the first is issued only
\* after a text reply classified incomplete with fewer than 2 retries used.
C4_Step ==
    /\ pc \in {"FailedUpstream", "FailedEmpty"} => calls' = calls
    /\ (calls' # calls /\ calls > 0) =>
          /\ reply = "text"
          /\ incomplete
          /\ \E i \in 1..Len(text_content) : text_content[i] \in {A, M}
          /\ \A i \in 1..Len(text_content) : text_content[i] # LB
          /\ retry_count < 2

\* C4: failed replies end the invocation, with C4_Step on every step
C4_RetryOnlyAfterIncomplete ==
    /\ [](reply = "error" => pc = "FailedUpstream")
    /\ [](reply \in {"no_choices", "empty_content"} => pc = "FailedEmpty")
    /\ [][C4_Step]_vars

C4_Witness == pc = "FailedEmpty" /\ retry_count = 1 /\ calls = 2

\* C5 as stated: every value the sanitizer returns parses as a JSON object.
C5_AlwaysObject ==
    (xpc # "input" /\ out.val # None) => JsonIsObject(out.val)

\* C5 amended: every value the sanitizer returns parses as JSON; it is a JSON
\* object when the brace span or the balanced scan produced it, while the
\* fenced and whole-text strategies return any JSON value.
C5_AlwaysJson ==
    (xpc # "input" /\ out.val # None) =>
        /\ JsonLoads(out.val)
        /\ out.via \in {"fenced_json", "fenced", "brace", "balanced", "whole"}
        /\ out.via \in {"brace", "balanced"} => JsonIsObject(out.val)

C5_Witness ==
    /\ xpc = "extracted"
    /\ out.via = "balanced"
    /\ JsonIsObject(out.val)
    /\ Len(text) > Len(out.val)

\* C6: running the sanitizer on a value it returned yields that value again.
C6_Idempotent ==
    xpc = "again" => out2 = out.val

\* C7: the invocation never fails with the malformed-JSON failure: whatever
\* the sanitizer returned, the parse that follows succeeds.
C7_MalformedUnreachable ==
    /\ pc # "FailedMalformed"
    /\ pc \in {"Extracted", "Parsed", "Done", "FailedSchemaValidation"} =>
          (json_str # None /\ JsonLoads(json_str))

C7_Witness == pc = "Parsed" /\ json_str = <<V>> /\ text_content = <<F, V, F>>

\* C8: the stages follow one another only in the order Sending, Received,
\* Complete, Extracted, Parsed, Done; the only step back to Sending is the
\* retry after an incomplete reply; no step leaves a failed state or Done; a
\* POST happens only on entering Sending and extraction only on leaving
\* Complete.
StageSteps ==
    {<<"Start", "Sending">>, <<"Sending", "Received">>,
     <<"Sending", "FailedUpstream">>, <<"Sending", "FailedEmpty">>,
     <<"Received", "Delay">>, <<"Received", "Complete">>,
     <<"Delay", "Sending">>,
     <<"Complete", "Extracted">>, <<"Complete", "FailedExtraction">>,
     <<"Extracted", "Parsed">>, <<"Extracted", "FailedMalformed">>,
     <<"Parsed", "Done">>, <<"Parsed", "FailedSchemaValidation">>}

C8_Step ==
    /\ <<pc, pc'>> \in StageSteps
    /\ calls' # calls <=> pc' = "Sending"
    /\ json_str' # json_str => pc = "Complete"

\* C8: the delay is entered only after an incomplete reply with budget left,
\* with C8_Step on every step
C8_StageOrder ==
    /\ [](pc = "Delay" => (incomplete /\ retry_count < MAX_RETRIES))
    /\ [][C8_Step]_vars

C8_Witness == pc = "Done" /\ retry_count = 1 /\ calls = 2

\* C9: when no fenced block yields JSON and the span from the first "{" to
\* the last "}" does not parse, the sanitizer returns the span from the first
\* "{" to the first "}" at which the depth is back at zero if that span
\* parses, and otherwise no brace span at all.
Depth(s, a, e) ==
    Cardinality({i \in a..e : s[i] = LB}) - Cardinality({i \in a..e : s[i] = RB})

C10_SameRequestEveryAttempt ==
    \A i \in 1..Len(sent) :
        /\ sent[i] = sent[1]
        /\ Len(sent[i].messages) = 1 + Len(args.messages)
        /\ sent[i].messages[1] = schema_instruction
        /\ \A k \in 1..Len(args.messages) :
              /\ sent[i].messages[k + 1] = NormalizeOne(args.messages[k])
              /\ sent[i].messages[k + 1] # schema_instruction
        /\ sent[i].model = (IF args.model = NoName THEN "sonar" ELSE args.model)
        /\ sent[i].temperature = args.temperature
        /\ sent[i].max_tokens = args.max_tokens

C10_Witness ==
    /\ Len(sent) = 3
    /\ Len(args.messages) = 2
    /\ args.messages[1] # args.messages[2]
====
